---- MODULE Spec2Model ----
(***************************************************************************)
(* A model of polyv/utils: the lang module (isArrayLike, isEmptyData,      *)
(* extend, cloneJSON, tryParseJSON) and the boolean module (boolToYN,      *)
(* ynToBool, allY, someY, allN, someN).                                    *)
(*                                                                         *)
(* JavaScript values are records [t, n, s]: t is the value's kind, n its   *)
(* number (a boolean's 0/1, a number's value, an object's reference, a     *)
(* function's identity) and s its characters (a string's, as a sequence    *)
(* of one-character strings).  Objects and arrays live in `heap`, a        *)
(* sequence of cells addressed by reference; a cell lists its own          *)
(* enumerable properties in insertion order.                               *)
(*                                                                         *)
(* Every function is one synchronous step.  args holds the arguments of    *)
(* the call, ret how it ended (returned a value, or threw), log what the   *)
(* caller's side saw besides: the calls made to onError, and the cells the *)
(* caller assigned to after cloneJSON; pc is the caller's position.        *)
(***************************************************************************)
EXTENDS Integers, Sequences, FiniteSets

VARIABLES heap, args, ret, log, pc

vars == <<heap, args, ret, log, pc>>

(***************************************************************************)
(* Bounds of the model.                                                    *)
(***************************************************************************)
\* the longest array of flags given to allY, someY, allN, someN
MaxLen == 3

(***************************************************************************)
(* Values.                                                                 *)
(***************************************************************************)
Undefined == [t |-> "undefined", n |-> 0, s |-> <<>>]
Null == [t |-> "null", n |-> 0, s |-> <<>>]
Bool(b) == [t |-> "boolean", n |-> IF b THEN 1 ELSE 0, s |-> <<>>]
Num(i) == [t |-> "number", n |-> i, s |-> <<>>]
NaN == [t |-> "number", n |-> 0, s |-> <<"N", "a", "N">>]
Str(chars) == [t |-> "string", n |-> 0, s |-> chars]
Func(id) == [t |-> "function", n |-> id, s |-> <<>>]
Sym == [t |-> "symbol", n |-> 0, s |-> <<>>]
Ref(r) == [t |-> "object", n |-> r, s |-> <<>>]
Err(name) == [t |-> "error", n |-> 0, s |-> <<name>>]

IsNullish(v) == v.t \in {"undefined", "null"}
IsRef(v) == v.t = "object"
IsNaN(v) == v.t = "number" /\ v.s # <<>>

\* How a call ends: it returns val, or it throws err.
Return(v) == [st |-> "return", val |-> v, err |-> Undefined]
Throw(e) == [st |-> "throw", val |-> Undefined, err |-> e]
NoCall == [st |-> "none", val |-> Undefined, err |-> Undefined]

\* A cell of the heap: an array or a plain object, its own enumerable
\* property names ks (insertion order) and their values vs.
ArrKeys == <<<<"0">>, <<"1">>, <<"2">>, <<"3">>, <<"4">>, <<"5">>>>
ArrCell(elems) == [kind |-> "arr", ks |-> SubSeq(ArrKeys, 1, Len(elems)), vs |-> elems]
ObjCell(keys, vals) == [kind |-> "obj", ks |-> keys, vs |-> vals]

(***************************************************************************)
(* Strings: String(value) and String.prototype.toUpperCase.                *)
(***************************************************************************)
UpperChar(c) ==
  CASE c = "y" -> "Y"
    [] c = "n" -> "N"
    [] c = "x" -> "X"
    [] c = "a" -> "A"
    [] c = "u" -> "U"
    [] c = "l" -> "L"
    [] c = "t" -> "T"
    [] c = "r" -> "R"
    [] c = "e" -> "E"
    [] c = "f" -> "F"
    [] c = "s" -> "S"
    [] c = "d" -> "D"
    [] c = "i" -> "I"
    [] c = "o" -> "O"
    [] c = "b" -> "B"
    [] c = "j" -> "J"
    [] c = "c" -> "C"
    [] OTHER -> c

toUpperCase(chars) == [i \in 1..Len(chars) |-> UpperChar(chars[i])]

Digits == <<"0", "1", "2", "3", "4", "5", "6", "7", "8", "9">>

RECURSIVE JoinFrom(_, _, _)
RECURSIVE StringOf(_, _)
\* Array.prototype.join(','), which String(array) uses: null and undefined
\* elements give the empty string.
JoinFrom(h, elems, i) ==
  IF i > Len(elems) THEN <<>>
  ELSE (IF i > 1 THEN <<",">> ELSE <<>>)
       \o (IF IsNullish(elems[i]) THEN <<>> ELSE StringOf(h, elems[i]))
       \o JoinFrom(h, elems, i + 1)

\* String(value) for the values of the model (numbers 0..9 only).
StringOf(h, v) ==
  CASE v.t = "undefined" -> <<"u", "n", "d", "e", "f", "i", "n", "e", "d">>
    [] v.t = "null" -> <<"n", "u", "l", "l">>
    [] v.t = "boolean" -> IF v.n = 1 THEN <<"t", "r", "u", "e">>
                          ELSE <<"f", "a", "l", "s", "e">>
    [] v.t = "number" -> IF IsNaN(v) THEN v.s ELSE <<Digits[v.n + 1]>>
    [] v.t = "string" -> v.s
    [] v.t = "function" -> <<"f", "(", ")", "{", "}">>
    [] v.t = "symbol" -> <<"S", "y", "m", "b", "o", "l", "(", ")">>
    [] v.t = "object" ->
         IF h[v.n].kind = "arr" THEN JoinFrom(h, h[v.n].vs, 1)
         ELSE <<"[", "o", "b", "j", "e", "c", "t", " ", "O", "b", "j", "e", "c", "t", "]">>
    [] OTHER -> <<"E", "r", "r", "o", "r">>

(***************************************************************************)
(* boolean.js                                                              *)
(***************************************************************************)
boolToYN(value) ==
  IF value.t # "boolean" THEN Throw(Err("The value argument must be a boolean type"))
  ELSE Return(IF value.n = 1 THEN Str(<<"Y">>) ELSE Str(<<"N">>))

\* ynToBool without the toUpperCase: "y" and "n" are refused.
ynToBool_CaseSensitive(h, value) ==
  LET up == StringOf(h, value) IN
  IF up # <<"Y">> /\ up # <<"N">>
  THEN Throw(Err("The value argument must be \"Y\" or \"N\""))
  ELSE Return(Bool(up = <<"Y">>))

ynToBool(h, value) ==
  LET up == toUpperCase(StringOf(h, value)) IN
  IF up # <<"Y">> /\ up # <<"N">>
  THEN Throw(Err("The value argument must be \"Y\" or \"N\""))
  ELSE Return(Bool(up = <<"Y">>))

\* The callback of allN and someN: function(value) { return !ynToBool(value); }
notYnToBool(h, value) ==
  LET r == ynToBool(h, value) IN
  IF r.st = "throw" THEN r ELSE Return(Bool(r.val.n = 0))

\* The callback handed to every/some, by name.
CallFlagFn(cb, h, value) ==
  IF cb = "ynToBool" THEN ynToBool(h, value) ELSE notYnToBool(h, value)

RECURSIVE EveryFrom_Eager(_, _, _, _)
\* every without the early stop: the callback runs on each element.
EveryFrom_Eager(cb, h, elems, i) ==
  IF i > Len(elems) THEN Return(Bool(TRUE))
  ELSE LET r == CallFlagFn(cb, h, elems[i]) IN
       IF r.st = "throw" THEN r
       ELSE LET rest == EveryFrom_Eager(cb, h, elems, i + 1) IN
            IF rest.st = "throw" THEN rest
            ELSE IF r.val.n = 0 THEN Return(Bool(FALSE)) ELSE rest

RECURSIVE EveryFrom(_, _, _, _)
\* Array.prototype.every: stops at the first element whose callback result
\* is false, and lets a callback's exception through.
EveryFrom(cb, h, elems, i) ==
  IF i > Len(elems) THEN Return(Bool(TRUE))
  ELSE LET r == CallFlagFn(cb, h, elems[i]) IN
       IF r.st = "throw" THEN r
       ELSE IF r.val.n = 0 THEN Return(Bool(FALSE))
       ELSE EveryFrom(cb, h, elems, i + 1)

RECURSIVE SomeFrom(_, _, _, _)
\* Array.prototype.some: stops at the first element whose callback result
\* is true, and lets a callback's exception through.
SomeFrom(cb, h, elems, i) ==
  IF i > Len(elems) THEN Return(Bool(FALSE))
  ELSE LET r == CallFlagFn(cb, h, elems[i]) IN
       IF r.st = "throw" THEN r
       ELSE IF r.val.n = 1 THEN Return(Bool(TRUE))
       ELSE SomeFrom(cb, h, elems, i + 1)

allY(h, values) == EveryFrom("ynToBool", h, h[values.n].vs, 1)
someY(h, values) == SomeFrom("ynToBool", h, h[values.n].vs, 1)
\* allN with allY's callback: the negation is lost.
allN_NoNegation(h, values) == EveryFrom("ynToBool", h, h[values.n].vs, 1)

allN(h, values) == EveryFrom("notYnToBool", h, h[values.n].vs, 1)
someN(h, values) == SomeFrom("notYnToBool", h, h[values.n].vs, 1)

(***************************************************************************)
(* The boolean module's callers.  SpecBatch: an array of flags is built,   *)
(* then allY, someY, allN and someN are called on it, in any order.        *)
(***************************************************************************)
\* the elements a flag array is built from
FlagVals ==
  {Str(<<"Y">>), Str(<<"y">>), Str(<<"N">>), Str(<<"n">>), Str(<<"x">>), Str(<<>>),
   Bool(TRUE), Null}

RECURSIVE SeqsUpTo(_, _)
\* the sequences over S of length at most n
SeqsUpTo(S, n) ==
  IF n = 0 THEN {<<>>}
  ELSE LET shorter == SeqsUpTo(S, n - 1) IN
       shorter \cup {Append(q, x) : q \in {r \in shorter : Len(r) = n - 1}, x \in S}

BatchFns == {"allY", "someY", "allN", "someN"}

InitBatch ==
  /\ \E elems \in SeqsUpTo(FlagVals, MaxLen) : heap = <<ArrCell(elems)>>
  /\ args = <<Ref(1)>>
  /\ ret = [f \in BatchFns |-> NoCall]
  /\ log = <<>>
  /\ pc = "batch"

CallAllY ==
  /\ pc = "batch" /\ ret["allY"].st = "none"
  /\ ret' = [ret EXCEPT !["allY"] = allY(heap, args[1])]
  /\ UNCHANGED <<heap, args, log, pc>>

CallSomeY ==
  /\ pc = "batch" /\ ret["someY"].st = "none"
  /\ ret' = [ret EXCEPT !["someY"] = someY(heap, args[1])]
  /\ UNCHANGED <<heap, args, log, pc>>

CallAllN ==
  /\ pc = "batch" /\ ret["allN"].st = "none"
  /\ ret' = [ret EXCEPT !["allN"] = allN(heap, args[1])]
  /\ UNCHANGED <<heap, args, log, pc>>

CallSomeN ==
  /\ pc = "batch" /\ ret["someN"].st = "none"
  /\ ret' = [ret EXCEPT !["someN"] = someN(heap, args[1])]
  /\ UNCHANGED <<heap, args, log, pc>>

NextBatch == CallAllY \/ CallSomeY \/ CallAllN \/ CallSomeN

SpecBatch == InitBatch /\ [][NextBatch]_vars

(***************************************************************************)
(* SpecFlag: one value is converted, by boolToYN, by ynToBool, or by one   *)
(* after the other.                                                        *)
(***************************************************************************)
\* the longest string given to the conversions
MaxChars == 2

FlagChars == {"y", "Y", "n", "N", "x", " "}

\* the heap of SpecFlag: the arrays ['y'] and ['n', 'y'], and the object {}
FlagHeap == <<ArrCell(<<Str(<<"y">>)>>), ArrCell(<<Str(<<"n">>), Str(<<"y">>)>>),
              ObjCell(<<>>, <<>>)>>

FlagInputs ==
  {Str(c) : c \in SeqsUpTo(FlagChars, MaxChars)}
  \cup {Bool(TRUE), Bool(FALSE), Null, Undefined, Num(0), Num(1), NaN,
        Ref(1), Ref(2), Ref(3), Func(0), Sym}

\* ynToBool(boolToYN(value))
ynToBoolOfBoolToYN(h, value) ==
  LET r == boolToYN(value) IN
  IF r.st = "throw" THEN r ELSE ynToBool(h, r.val)

\* boolToYN(ynToBool(value))
boolToYNOfYnToBool(h, value) ==
  LET r == ynToBool(h, value) IN
  IF r.st = "throw" THEN r ELSE boolToYN(r.val)

InitFlag ==
  /\ heap = FlagHeap
  /\ \E v \in FlagInputs : args = <<v>>
  /\ ret = [fn |-> "none", out |-> NoCall]
  /\ log = <<>>
  /\ pc = "flag"

CallBoolToYN ==
  /\ pc = "flag"
  /\ ret' = [fn |-> "boolToYN", out |-> boolToYN(args[1])]
  /\ pc' = "done"
  /\ UNCHANGED <<heap, args, log>>

CallYnToBool ==
  /\ pc = "flag"
  /\ ret' = [fn |-> "ynToBool", out |-> ynToBool(heap, args[1])]
  /\ pc' = "done"
  /\ UNCHANGED <<heap, args, log>>

CallYnToBoolOfBoolToYN ==
  /\ pc = "flag"
  /\ ret' = [fn |-> "ynToBool(boolToYN)", out |-> ynToBoolOfBoolToYN(heap, args[1])]
  /\ pc' = "done"
  /\ UNCHANGED <<heap, args, log>>

CallBoolToYNOfYnToBool ==
  /\ pc = "flag"
  /\ ret' = [fn |-> "boolToYN(ynToBool)", out |-> boolToYNOfYnToBool(heap, args[1])]
  /\ pc' = "done"
  /\ UNCHANGED <<heap, args, log>>

NextFlag ==
  CallBoolToYN \/ CallYnToBool \/ CallYnToBoolOfBoolToYN \/ CallBoolToYNOfYnToBool

SpecFlag == InitFlag /\ [][NextFlag]_vars

(***************************************************************************)
(* Objects: own enumerable properties of a value, reading and writing one. *)
(* A cell of kind "arr" is a native array, one of kind "obj" a plain       *)
(* object, one of kind "list" an array-like host object (arguments, a      *)
(* NodeList) whose length is not an own enumerable property.               *)
(***************************************************************************)
ListCell(elems) == [kind |-> "list", ks |-> SubSeq(ArrKeys, 1, Len(elems)), vs |-> elems]

IndexOf(keys, k) ==
  IF \E i \in 1..Len(keys) : keys[i] = k
  THEN CHOOSE i \in 1..Len(keys) : keys[i] = k
  ELSE 0

\* the own enumerable property names of a value, in for-in order
OwnKeys(h, v) ==
  CASE v.t = "object" -> h[v.n].ks
    [] v.t = "string" -> SubSeq(ArrKeys, 1, Len(v.s))
    [] OTHER -> <<>>

\* Object.prototype.hasOwnProperty.call(obj, prop), for enumerable props
hasOwnProp(h, obj, prop) == IndexOf(OwnKeys(h, obj), prop) # 0

\* value[key] for an own enumerable property (undefined when there is none)
GetProp(h, v, k) ==
  LET i == IndexOf(OwnKeys(h, v), k) IN
  IF i = 0 THEN Undefined
  ELSE IF v.t = "string" THEN Str(<<v.s[i]>>)
  ELSE h[v.n].vs[i]

\* cell[key] = value
SetField(cell, k, v) ==
  LET i == IndexOf(cell.ks, k) IN
  IF i = 0 THEN [cell EXCEPT !.ks = Append(@, k), !.vs = Append(@, v)]
  ELSE [cell EXCEPT !.vs[i] = v]

\* typeof value === 'object' && value !== null
isObject(v) == IsRef(v)

RECURSIVE CopyFrom(_, _, _, _)
\* the for-in loop of extendSingle, from the i-th own key of source on
CopyFrom(h, target, source, i) ==
  LET keys == OwnKeys(h, source) IN
  IF i > Len(keys) THEN h
  ELSE CopyFrom([h EXCEPT ![target.n] = SetField(@, keys[i], GetProp(h, source, keys[i]))],
                target, source, i + 1)

\* extendSingle(target, source): a null or undefined source is skipped
extendSingle(h, target, source) ==
  IF IsNullish(source) THEN h ELSE CopyFrom(h, target, source, 1)

(***************************************************************************)
(* lang: isArrayLike, isEmptyData, extend.                                 *)
(***************************************************************************)
KeyLength == <<"l", "e", "n", "g", "t", "h">>

Half == [t |-> "number", n |-> 0, s |-> <<"0", ".", "5">>]

\* value.length
LengthOf(h, v) ==
  CASE v.t = "string" -> Num(Len(v.s))
    [] v.t = "object" /\ h[v.n].kind \in {"arr", "list"} -> Num(Len(h[v.n].vs))
    [] v.t = "object" /\ h[v.n].kind = "obj" -> GetProp(h, v, KeyLength)
    [] OTHER -> Undefined

isArrayLike(h, obj) ==
  /\ ~IsNullish(obj)
  /\ obj.t # "function"
  /\ LengthOf(h, obj).t = "number"
  /\ ~IsNaN(LengthOf(h, obj)) /\ LengthOf(h, obj).n >= 0
  /\ LengthOf(h, obj).s = <<>>

Whitespace == {" ", "\t", "\n"}

RECURSIVE TrimStart(_)
TrimStart(chars) ==
  IF chars # <<>> /\ Head(chars) \in Whitespace THEN TrimStart(Tail(chars)) ELSE chars

RECURSIVE TrimEnd(_)
TrimEnd(chars) ==
  IF chars # <<>> /\ chars[Len(chars)] \in Whitespace
  THEN TrimEnd(SubSeq(chars, 1, Len(chars) - 1))
  ELSE chars

\* String.prototype.trim
trim(chars) == TrimEnd(TrimStart(chars))

isEmptyData(h, value) ==
  IF IsNullish(value) THEN Return(Bool(TRUE))
  ELSE IF value.t = "string" THEN Return(Bool(trim(value.s) = <<>>))
  ELSE IF IsRef(value) /\ h[value.n].kind = "arr"
       THEN Return(Bool(Len(h[value.n].vs) = 0))
  ELSE IF isObject(value)
       THEN Return(Bool(~ \E i \in 1..Len(OwnKeys(h, value)) :
                            hasOwnProp(h, value, OwnKeys(h, value)[i])))
  ELSE Return(Bool(FALSE))

RECURSIVE ExtendFrom(_, _, _, _)
\* the while loop of extend, from the i-th source on
ExtendFrom(h, target, sources, i) ==
  IF i > Len(sources) THEN h
  ELSE ExtendFrom(extendSingle(h, target, sources[i]), target, sources, i + 1)

\* extend whose loop stops one argument early: the last source is lost.
extend_SkipLast(h, target, sources) ==
  IF IsNullish(target)
  THEN [out |-> Throw(Err("The target argument cannot be null or undefined")), h |-> h]
  ELSE [out |-> Return(target),
        h |-> ExtendFrom(h, target, SubSeq(sources, 1, Len(sources) - 1), 1)]

\* extend whose guard is target === null: an undefined target gets past it,
\* and fails only when a property is assigned to it.
extend_StrictNull(h, target, sources) ==
  IF target = Null
  THEN [out |-> Throw(Err("The target argument cannot be null or undefined")), h |-> h]
  ELSE IF target = Undefined
  THEN IF \E i \in 1..Len(sources) : OwnKeys(h, sources[i]) # <<>>
       THEN [out |-> Throw(Err("TypeError")), h |-> h]
       ELSE [out |-> Return(target), h |-> h]
  ELSE [out |-> Return(target), h |-> ExtendFrom(h, target, sources, 1)]

\* extend(target, ...sources): the call's outcome and the heap it leaves
extend(h, target, sources) ==
  IF IsNullish(target)
  THEN [out |-> Throw(Err("The target argument cannot be null or undefined")), h |-> h]
  ELSE [out |-> Return(target), h |-> ExtendFrom(h, target, sources, 1)]

(***************************************************************************)
(* JSON text, as its sequence of tokens: the punctuation, the literals     *)
(* null, true and false, numbers, strings, and anything else ("bad").      *)
(***************************************************************************)
Punct(c) == [k |-> c, n |-> 0, s |-> <<>>]
TokLit(name) == [k |-> "lit", n |-> 0, s |-> <<name>>]
TokNum(v) == [k |-> "num", n |-> v.n, s |-> v.s]
TokStr(chars) == [k |-> "str", n |-> 0, s |-> chars]
TokBad(word) == [k |-> "bad", n |-> 0, s |-> <<word>>]

\* what JSON.stringify gives: a text, undefined, or a TypeError
Text(toks) == [st |-> "text", txt |-> toks]
NoText == [st |-> "undefined", txt |-> <<>>]
Circular == [st |-> "throw", txt |-> <<>>]

\* values JSON.stringify has no text for
Unserializable(v) == v.t \in {"undefined", "function", "symbol"}

RECURSIVE Ser(_, _, _)
RECURSIVE SerElems(_, _, _, _)
RECURSIVE SerMembers(_, _, _, _, _)

\* the elements of an array from the i-th on, separated by commas; an
\* unserializable element is written null
SerElems(h, r, i, stack) ==
  LET elems == h[r].vs IN
  IF i > Len(elems) THEN Text(<<>>)
  ELSE LET e == Ser(h, elems[i], stack)
           rest == SerElems(h, r, i + 1, stack)
           sep == IF i > 1 THEN <<Punct(",")>> ELSE <<>>
       IN IF e.st = "throw" \/ rest.st = "throw" THEN Circular
          ELSE IF e.st = "undefined" THEN Text(sep \o <<TokLit("null")>> \o rest.txt)
          ELSE Text(sep \o e.txt \o rest.txt)

\* the members of an object from the i-th own key on; a member whose value
\* is unserializable is left out
SerMembers(h, r, i, stack, first) ==
  LET cell == h[r] IN
  IF i > Len(cell.ks) THEN Text(<<>>)
  ELSE LET e == Ser(h, cell.vs[i], stack) IN
       IF e.st = "throw" THEN Circular
       ELSE IF e.st = "undefined" THEN SerMembers(h, r, i + 1, stack, first)
       ELSE LET rest == SerMembers(h, r, i + 1, stack, FALSE)
                sep == IF first THEN <<>> ELSE <<Punct(",")>>
            IN IF rest.st = "throw" THEN Circular
               ELSE Text(sep \o <<TokStr(cell.ks[i]), Punct(":")>> \o e.txt \o rest.txt)

\* JSON.stringify of one value; stack holds the objects being written
Ser(h, v, stack) ==
  CASE Unserializable(v) -> NoText
    [] v.t = "null" -> Text(<<TokLit("null")>>)
    [] v.t = "boolean" -> Text(<<TokLit(IF v.n = 1 THEN "true" ELSE "false")>>)
    [] v.t = "number" -> IF IsNaN(v) THEN Text(<<TokLit("null")>>) ELSE Text(<<TokNum(v)>>)
    [] v.t = "string" -> Text(<<TokStr(v.s)>>)
    [] v.t = "object" ->
         IF v.n \in stack THEN Circular
         ELSE IF h[v.n].kind = "arr"
         THEN LET es == SerElems(h, v.n, 1, stack \cup {v.n}) IN
              IF es.st = "throw" THEN Circular
              ELSE Text(<<Punct("[")>> \o es.txt \o <<Punct("]")>>)
         ELSE LET ms == SerMembers(h, v.n, 1, stack \cup {v.n}, TRUE) IN
              IF ms.st = "throw" THEN Circular
              ELSE Text(<<Punct("{")>> \o ms.txt \o <<Punct("}")>>)
    [] OTHER -> Text(<<Punct("{"), Punct("}")>>)

JSONstringify(h, v) == Ser(h, v, {})

\* Parsed JSON, before it is allocated: a leaf, an array of trees, or an
\* object of keys and trees.
Leaf(v) == [node |-> "leaf", val |-> v, ks |-> <<>>, es |-> <<>>]
ArrTree(es) == [node |-> "arr", val |-> Undefined, ks |-> <<>>, es |-> es]
ObjTree(ks, es) == [node |-> "obj", val |-> Undefined, ks |-> ks, es |-> es]

ParseFail == [ok |-> FALSE, v |-> Leaf(Undefined), p |-> 0]
ParseOk(tree, next) == [ok |-> TRUE, v |-> tree, p |-> next]

LeafOf(tok) ==
  CASE tok.k = "lit" /\ tok.s = <<"null">> -> Leaf(Null)
    [] tok.k = "lit" /\ tok.s = <<"true">> -> Leaf(Bool(TRUE))
    [] tok.k = "lit" -> Leaf(Bool(FALSE))
    [] tok.k = "num" -> Leaf([t |-> "number", n |-> tok.n, s |-> tok.s])
    [] OTHER -> Leaf(Str(tok.s))

RECURSIVE ParseValue(_, _)
RECURSIVE ParseElems(_, _, _)
RECURSIVE ParseMembers(_, _, _, _)

\* value (',' value)* ']'
ParseElems(toks, p, acc) ==
  LET r == ParseValue(toks, p) IN
  IF ~r.ok \/ r.p > Len(toks) THEN ParseFail
  ELSE IF toks[r.p].k = "," THEN ParseElems(toks, r.p + 1, Append(acc, r.v))
  ELSE IF toks[r.p].k = "]" THEN ParseOk(ArrTree(Append(acc, r.v)), r.p + 1)
  ELSE ParseFail

\* string ':' value (',' string ':' value)* '}': a repeated key keeps its
\* place and takes the later value
ParseMembers(toks, p, ks, es) ==
  IF p + 1 > Len(toks) \/ toks[p].k # "str" \/ toks[p + 1].k # ":" THEN ParseFail
  ELSE LET r == ParseValue(toks, p + 2)
           i == IndexOf(ks, toks[p].s)
           ks2 == IF i = 0 THEN Append(ks, toks[p].s) ELSE ks
           es2 == IF i = 0 THEN Append(es, r.v) ELSE [es EXCEPT ![i] = r.v]
       IN IF ~r.ok \/ r.p > Len(toks) THEN ParseFail
          ELSE IF toks[r.p].k = "," THEN ParseMembers(toks, r.p + 1, ks2, es2)
          ELSE IF toks[r.p].k = "}" THEN ParseOk(ObjTree(ks2, es2), r.p + 1)
          ELSE ParseFail

ParseValue(toks, p) ==
  IF p > Len(toks) THEN ParseFail
  ELSE CASE toks[p].k \in {"lit", "num", "str"} -> ParseOk(LeafOf(toks[p]), p + 1)
         [] toks[p].k = "[" ->
              IF p + 1 <= Len(toks) /\ toks[p + 1].k = "]"
              THEN ParseOk(ArrTree(<<>>), p + 2)
              ELSE ParseElems(toks, p + 1, <<>>)
         [] toks[p].k = "{" ->
              IF p + 1 <= Len(toks) /\ toks[p + 1].k = "}"
              THEN ParseOk(ObjTree(<<>>, <<>>), p + 2)
              ELSE ParseMembers(toks, p + 1, <<>>, <<>>)
         [] OTHER -> ParseFail

RECURSIVE Alloc(_, _)
RECURSIVE AllocAll(_, _, _, _)

\* the trees es from the i-th on, allocated in turn: the heap and the values
AllocAll(h, es, i, acc) ==
  IF i > Len(es) THEN [h |-> h, vs |-> acc]
  ELSE LET a == Alloc(h, es[i]) IN AllocAll(a.h, es, i + 1, Append(acc, a.v))

\* a parsed tree as a value, its arrays and objects new cells of the heap
Alloc(h, tree) ==
  IF tree.node = "leaf" THEN [h |-> h, v |-> tree.val]
  ELSE LET kids == AllocAll(h, tree.es, 1, <<>>)
           cell == IF tree.node = "arr" THEN ArrCell(kids.vs)
                   ELSE ObjCell(tree.ks, kids.vs)
       IN [h |-> Append(kids.h, cell), v |-> Ref(Len(kids.h) + 1)]

\* JSON.parse(text): the value and the heap holding it, or a SyntaxError
JSONparse(h, toks) ==
  LET r == ParseValue(toks, 1) IN
  IF r.ok /\ r.p = Len(toks) + 1
  THEN [out |-> Return(Alloc(h, r.v).v), h |-> Alloc(h, r.v).h]
  ELSE [out |-> Throw(Err("SyntaxError")), h |-> h]

(***************************************************************************)
(* lang: cloneJSON, tryParseJSON.                                          *)
(***************************************************************************)
\* cloneJSON whose guard is obj === null: undefined is serialized too.
cloneJSON_StrictNull(h, obj) ==
  IF obj = Null THEN [out |-> Return(obj), h |-> h]
  ELSE LET text == JSONstringify(h, obj) IN
       IF text.st = "throw" THEN [out |-> Throw(Err("TypeError")), h |-> h]
       ELSE IF text.st = "undefined" THEN JSONparse(h, <<TokBad("undefined")>>)
       ELSE JSONparse(h, text.txt)

\* cloneJSON as a one-level copy: nested objects are shared with obj.
cloneJSON_Shallow(h, obj) ==
  IF IsNullish(obj) THEN [out |-> Return(obj), h |-> h]
  ELSE LET text == JSONstringify(h, obj) IN
       IF text.st = "throw" THEN [out |-> Throw(Err("TypeError")), h |-> h]
       ELSE IF text.st = "undefined" THEN JSONparse(h, <<TokBad("undefined")>>)
       ELSE IF IsRef(obj)
            THEN [out |-> Return(Ref(Len(h) + 1)), h |-> Append(h, h[obj.n])]
            ELSE JSONparse(h, text.txt)

\* cloneJSON(obj): JSON.parse(undefined) parses the text "undefined"
cloneJSON(h, obj) ==
  IF IsNullish(obj) THEN [out |-> Return(obj), h |-> h]
  ELSE LET text == JSONstringify(h, obj) IN
       IF text.st = "throw" THEN [out |-> Throw(Err("TypeError")), h |-> h]
       ELSE IF text.st = "undefined" THEN JSONparse(h, <<TokBad("undefined")>>)
       ELSE JSONparse(h, text.txt)

\* A callback argument: undefined or null (none given), Func(0), which
\* returns, or Func(1), which throws.
Truthy(v) == ~IsNullish(v)
CallbackError == Err("thrown by onError")
CallCallback(f, arg) == IF f.n = 1 THEN Throw(CallbackError) ELSE Return(Undefined)

\* tryParseJSON without the try: the parse error reaches the caller.
tryParseJSON_NoCatch(h, str, onError, calls) ==
  LET r == JSONparse(h, str) IN
  [out |-> r.out, h |-> r.h, log |-> calls]

\* tryParseJSON that calls onError() with no argument.
tryParseJSON_NoErrorArg(h, str, onError, calls) ==
  LET r == JSONparse(h, str) IN
  IF r.out.st = "return" THEN [out |-> r.out, h |-> r.h, log |-> calls]
  ELSE IF Truthy(onError)
       THEN [out |-> IF CallCallback(onError, Undefined).st = "throw"
                     THEN CallCallback(onError, Undefined)
                     ELSE Return(Undefined),
             h |-> h,
             log |-> Append(calls, <<onError, Undefined>>)]
       ELSE [out |-> Return(Undefined), h |-> h, log |-> calls]

\* tryParseJSON(str, onError): the outcome, the heap, and the calls made
\* to onError (each with its argument)
tryParseJSON(h, str, onError, calls) ==
  LET r == JSONparse(h, str) IN
  IF r.out.st = "return" THEN [out |-> r.out, h |-> r.h, log |-> calls]
  ELSE IF Truthy(onError)
       THEN [out |-> IF CallCallback(onError, r.out.err).st = "throw"
                     THEN CallCallback(onError, r.out.err)
                     ELSE Return(Undefined),
             h |-> h,
             log |-> Append(calls, <<onError, r.out.err>>)]
       ELSE [out |-> Return(Undefined), h |-> h, log |-> calls]

(***************************************************************************)
(* SpecExtend: two objects with any of the properties a and b (object i    *)
(* holds the value i), the object {a: 3}, and the array [9]; extend is     *)
(* called with a target and up to MaxSources sources, which may repeat     *)
(* and may be the target itself.                                           *)
(***************************************************************************)
\* the most sources given to extend
MaxSources == 3

KeyA == <<"a">>
KeyB == <<"b">>

ObjWith(keys, n) == ObjCell(keys, [i \in 1..Len(keys) |-> Num(n)])

KeyLists == {<<>>, <<KeyA>>, <<KeyB>>, <<KeyA, KeyB>>}

ExtendTargets == {Null, Undefined, Ref(1), Ref(2)}
ExtendSources == {Null, Undefined, Ref(1), Ref(2), Ref(3), Ref(4), Str(<<"x">>)}

InitExtend ==
  /\ \E k1 \in KeyLists, k2 \in KeyLists :
       heap = <<ObjWith(k1, 1), ObjWith(k2, 2), ObjWith(<<KeyA>>, 3), ArrCell(<<Num(9)>>)>>
  /\ \E t \in ExtendTargets, srcs \in SeqsUpTo(ExtendSources, MaxSources) :
       args = <<t>> \o srcs
  /\ ret = NoCall
  /\ log = <<>>
  /\ pc = "extend"

CallExtend ==
  /\ pc = "extend"
  /\ LET r == extend(heap, args[1], Tail(args)) IN
       /\ ret' = r.out
       /\ heap' = r.h
  /\ pc' = "done"
  /\ UNCHANGED <<args, log>>

NextExtend == CallExtend

SpecExtend == InitExtend /\ [][NextExtend]_vars

(***************************************************************************)
(* SpecEmpty: isEmptyData and isArrayLike are called on one value: a       *)
(* primitive, or an array, an array-like host object or a plain object.    *)
(***************************************************************************)
EmptyCells ==
  {ArrCell(e) : e \in SeqsUpTo({Num(1)}, 2)}
  \cup {ListCell(e) : e \in SeqsUpTo({Num(1)}, 2)}
  \cup {ObjCell(<<>>, <<>>), ObjCell(<<KeyA>>, <<Num(1)>>)}
  \cup {ObjCell(<<KeyLength>>, <<l>>) :
          l \in {Num(0), Num(1), Num(-1), NaN, Half, Str(<<>>), Str(<<"0">>), Null}}
  \cup {ObjCell(<<KeyLength, KeyA>>, <<l, Num(1)>>) : l \in {Num(0), Num(1)}}

EmptyInputs ==
  {Str(c) : c \in SeqsUpTo({" ", "\t", "a"}, MaxChars)}
  \cup {Null, Undefined, Bool(TRUE), Bool(FALSE), Num(0), Num(1), NaN, Func(0), Sym}

InitEmpty ==
  /\ \/ \E c \in EmptyCells : heap = <<c>> /\ args = <<Ref(1)>>
     \/ \E v \in EmptyInputs : heap = <<>> /\ args = <<v>>
  /\ ret = [fn |-> "none", out |-> NoCall]
  /\ log = <<>>
  /\ pc = "empty"

CallIsEmptyData ==
  /\ pc = "empty"
  /\ ret' = [fn |-> "isEmptyData", out |-> isEmptyData(heap, args[1])]
  /\ pc' = "done"
  /\ UNCHANGED <<heap, args, log>>

CallIsArrayLike ==
  /\ pc = "empty"
  /\ ret' = [fn |-> "isArrayLike", out |-> Return(Bool(isArrayLike(heap, args[1])))]
  /\ pc' = "done"
  /\ UNCHANGED <<heap, args, log>>

NextEmpty == CallIsEmptyData \/ CallIsArrayLike

SpecEmpty == InitEmpty /\ [][NextEmpty]_vars

(***************************************************************************)
(* SpecClone: an object {a: X, b: Y}, an array [Z] and the object {a: 1},  *)
(* where X, Y and Z are primitives, functions or references to the three   *)
(* (so the heap may hold shared and circular references); cloneJSON is     *)
(* called on one value, and afterwards the caller assigns to properties    *)
(* of the original or of the copy.                                         *)
(***************************************************************************)
\* the most assignments the caller makes after the clone
MaxMutations == 1

CloneFieldsX == {Num(1), Null, Undefined, Func(0), Ref(1), Ref(2), Ref(3)}
CloneFieldsY == {Num(1), Sym, NaN, Ref(2), Ref(3)}
CloneInputs ==
  {Ref(1), Ref(2), Ref(3), Null, Undefined, Func(0), Sym, Num(1), NaN,
   Str(<<"s">>), Bool(TRUE)}

InitClone ==
  /\ \E x \in CloneFieldsX, y \in CloneFieldsY, z \in CloneFieldsX :
       heap = <<ObjCell(<<KeyA, KeyB>>, <<x, y>>), ArrCell(<<z>>),
                ObjCell(<<KeyA>>, <<Num(1)>>)>>
  /\ \E v \in CloneInputs : args = <<v>>
  /\ ret = NoCall
  /\ log = <<>>
  /\ pc = "clone"

CallCloneJSON ==
  /\ pc = "clone"
  /\ LET r == cloneJSON(heap, args[1]) IN
       /\ ret' = r.out
       /\ heap' = r.h
  /\ pc' = "cloned"
  /\ UNCHANGED <<args, log>>

\* the caller's later assignment cell[k] = 7, or array[0] = 7, array.push(7)
Mutate ==
  /\ pc = "cloned" /\ ret.st = "return" /\ IsRef(args[1])
  /\ Len(log) < MaxMutations
  /\ \E r \in 1..Len(heap) :
       /\ \/ /\ heap[r].kind = "obj"
             /\ \E k \in {KeyA, KeyB} : heap' = [heap EXCEPT ![r] = SetField(@, k, Num(7))]
          \/ /\ heap[r].kind = "arr" /\ Len(heap[r].vs) > 0
             /\ heap' = [heap EXCEPT ![r] = ArrCell([@.vs EXCEPT ![1] = Num(7)])]
          \/ /\ heap[r].kind = "arr"
             /\ heap' = [heap EXCEPT ![r] = ArrCell(Append(@.vs, Num(7)))]
       /\ log' = Append(log, r)
  /\ UNCHANGED <<args, ret, pc>>

NextClone == CallCloneJSON \/ Mutate

SpecClone == InitClone /\ [][NextClone]_vars

(***************************************************************************)
(* SpecParse: tryParseJSON is called on a text, with no onError, with one  *)
(* that returns or with one that throws.                                   *)
(***************************************************************************)
\* the longest text of the exhaustive part of the inputs, in tokens
MaxTok == 3

TokenSet ==
  {Punct("["), Punct("]"), Punct("{"), Punct("}"), Punct(","), Punct(":"),
   TokLit("null"), TokNum(Num(1)), TokStr(KeyA), TokBad("not")}

\* longer texts: {"a":1}  {"a":[1,null]}  [1,null]  [[1],{}]  {"a":1,}
\* {"a":1,"a":null}  {"a":{"a":true}}  {"a":1 "a":1}  [1,,1]
LongTexts ==
  {<<Punct("{"), TokStr(KeyA), Punct(":"), TokNum(Num(1)), Punct("}")>>,
   <<Punct("{"), TokStr(KeyA), Punct(":"), Punct("["), TokNum(Num(1)), Punct(","),
     TokLit("null"), Punct("]"), Punct("}")>>,
   <<Punct("["), TokNum(Num(1)), Punct(","), TokLit("null"), Punct("]")>>,
   <<Punct("["), Punct("["), TokNum(Num(1)), Punct("]"), Punct(","), Punct("{"),
     Punct("}"), Punct("]")>>,
   <<Punct("{"), TokStr(KeyA), Punct(":"), TokNum(Num(1)), Punct(","), Punct("}")>>,
   <<Punct("{"), TokStr(KeyA), Punct(":"), TokNum(Num(1)), Punct(","), TokStr(KeyA),
     Punct(":"), TokLit("null"), Punct("}")>>,
   <<Punct("{"), TokStr(KeyA), Punct(":"), Punct("{"), TokStr(KeyA), Punct(":"),
     TokLit("true"), Punct("}"), Punct("}")>>,
   <<Punct("{"), TokStr(KeyA), Punct(":"), TokNum(Num(1)), TokStr(KeyA), Punct(":"),
     TokNum(Num(1)), Punct("}")>>,
   <<Punct("["), TokNum(Num(1)), Punct(","), Punct(","), TokNum(Num(1)), Punct("]")>>}

OnErrors == {Undefined, Null, Func(0), Func(1)}

InitParse ==
  /\ heap = <<>>
  /\ \E text \in SeqsUpTo(TokenSet, MaxTok) \cup LongTexts, onError \in OnErrors :
       args = <<text, onError>>
  /\ ret = NoCall
  /\ log = <<>>
  /\ pc = "parse"

CallTryParseJSON ==
  /\ pc = "parse"
  /\ LET r == tryParseJSON(heap, args[1], args[2], log) IN
       /\ ret' = r.out
       /\ heap' = r.h
       /\ log' = r.log
  /\ pc' = "done"
  /\ UNCHANGED args

NextParse == CallTryParseJSON

SpecParse == InitParse /\ [][NextParse]_vars

(***************************************************************************)
(* Properties of the boolean module.                                       *)
(***************************************************************************)
\* The flags, stated without toUpperCase: a value whose string form is "Y"
\* or "y", and one whose string form is "N" or "n".
IsY(h, v) == StringOf(h, v) \in {<<"Y">>, <<"y">>}
IsN(h, v) == StringOf(h, v) \in {<<"N">>, <<"n">>}
IsFlag(h, v) == IsY(h, v) \/ IsN(h, v)

\* the array allY, someY, allN and someN are called on
Elems == heap[args[1].n].vs

HasInvalid == \E i \in 1..Len(Elems) : ~IsFlag(heap, Elems[i])

\* whether f's scan goes on past the valid flag v
GoesOn(f, v) ==
  CASE f = "allY" -> IsY(heap, v)
    [] f = "allN" -> IsN(heap, v)
    [] f = "someY" -> IsN(heap, v)
    [] f = "someN" -> IsY(heap, v)

\* C5 as stated: whenever the array holds an element that is not a valid
\* flag, at any position, each of allY, someY, allN and someN raises.
C5_RaisesOnAnyInvalid ==
  \A f \in BatchFns : (ret[f].st # "none" /\ HasInvalid) => ret[f].st = "throw"

\* C5 amended: each of allY, someY, allN and someN raises exactly when the
\* array holds an invalid element that its scan reaches, i.e. every element
\* before it lets the scan go on (Y for allY and someN, N for allN and
\* someY); otherwise it returns a boolean.
C5_RaisesOnReachedInvalid ==
  \A f \in BatchFns :
    ret[f].st # "none" =>
      /\ ret[f].st = "throw" <=>
           \E i \in 1..Len(Elems) :
             /\ ~IsFlag(heap, Elems[i])
             /\ \A j \in 1..(i - 1) : GoesOn(f, Elems[j])
      /\ ret[f].st = "return" => ret[f].val.t = "boolean"

\* an invalid element after an N: allY stops before it, allN reaches it
C5_Witness ==
  /\ Len(Elems) = 2 /\ IsN(heap, Elems[1]) /\ ~IsFlag(heap, Elems[2])
  /\ ret["allY"] = Return(Bool(FALSE))
  /\ ret["allN"].st = "throw"

AllValid == \A i \in 1..Len(Elems) : IsFlag(heap, Elems[i])

\* C7: on an array of valid flags, allY is true iff every element is Y,
\* allN iff every element is N, someY iff some element is Y, someN iff
\* some element is N (so on the empty array allY and allN are true, someY
\* and someN false), and allY = ~someN, allN = ~someY.
C7_BatchResults ==
  AllValid =>
    /\ ret["allY"].st # "none" =>
         ret["allY"] = Return(Bool(\A i \in 1..Len(Elems) : IsY(heap, Elems[i])))
    /\ ret["allN"].st # "none" =>
         ret["allN"] = Return(Bool(\A i \in 1..Len(Elems) : IsN(heap, Elems[i])))
    /\ ret["someY"].st # "none" =>
         ret["someY"] = Return(Bool(\E i \in 1..Len(Elems) : IsY(heap, Elems[i])))
    /\ ret["someN"].st # "none" =>
         ret["someN"] = Return(Bool(\E i \in 1..Len(Elems) : IsN(heap, Elems[i])))
    /\ (ret["allY"].st # "none" /\ ret["someN"].st # "none") =>
         ret["allY"].val.n = 1 - ret["someN"].val.n
    /\ (ret["allN"].st # "none" /\ ret["someY"].st # "none") =>
         ret["allN"].val.n = 1 - ret["someY"].val.n
    /\ Len(Elems) = 0 =>
         /\ ret["allY"].st # "none" => ret["allY"].val.n = 1
         /\ ret["allN"].st # "none" => ret["allN"].val.n = 1
         /\ ret["someY"].st # "none" => ret["someY"].val.n = 0
         /\ ret["someN"].st # "none" => ret["someN"].val.n = 0

\* all four called on a mixed array of valid flags in both letter cases
C7_Witness ==
  /\ AllValid /\ Len(Elems) = 3
  /\ Elems[1] = Str(<<"y">>) /\ Elems[2] = Str(<<"N">>)
  /\ \A f \in BatchFns : ret[f].st = "return"
  /\ ret["someY"].val.n = 1 /\ ret["allY"].val.n = 0

\* C8: ynToBool(boolToYN(b)) returns b for both booleans b, and for every
\* value s whose string form is "Y" or "N" in either letter case,
\* boolToYN(ynToBool(s)) returns that string form in upper case; neither
\* composition raises on these inputs.
C8_RoundTrip ==
  /\ (ret.fn = "ynToBool(boolToYN)" /\ args[1].t = "boolean") =>
       ret.out = Return(args[1])
  /\ (ret.fn = "boolToYN(ynToBool)" /\ IsY(heap, args[1])) =>
       ret.out = Return(Str(<<"Y">>))
  /\ (ret.fn = "boolToYN(ynToBool)" /\ IsN(heap, args[1])) =>
       ret.out = Return(Str(<<"N">>))

\* the lower-case flag "n" went through boolToYN(ynToBool(.))
C8_Witness ==
  /\ ret.fn = "boolToYN(ynToBool)"
  /\ args[1] = Str(<<"n">>)
  /\ ret.out = Return(Str(<<"N">>))

(***************************************************************************)
(* Properties of extend.                                                   *)
(***************************************************************************)
PropKeys == {KeyA, KeyB, <<"0">>}

\* the sources of the call, and the positions of those that have k as an
\* own enumerable property in heap h
Sources == Tail(args)
Having(h, k) == {i \in 1..Len(Sources) : hasOwnProp(h, Sources[i], k)}
Last(S) == CHOOSE i \in S : \A j \in S : j <= i

\* C1: extend with a non-null target returns the target itself, and
\* afterwards, for every key k, target[k] is the value of k in the last
\* source that has k as an own enumerable property, or target's value
\* before the call when no source has k; null and undefined sources are
\* skipped without error.  (The sources are read as they are after the
\* call; when the target is not itself a source, that is also as they
\* were before it.)
C1_ExtendMerges ==
  [][(pc = "extend" /\ pc' = "done" /\ ~IsNullish(args[1])) =>
       /\ ret' = Return(args[1])
       /\ \A k \in PropKeys :
            IF Having(heap', k) = {}
            THEN /\ hasOwnProp(heap', args[1], k) = hasOwnProp(heap, args[1], k)
                 /\ GetProp(heap', args[1], k) = GetProp(heap, args[1], k)
            ELSE /\ hasOwnProp(heap', args[1], k)
                 /\ GetProp(heap', args[1], k)
                      = GetProp(heap', Sources[Last(Having(heap', k))], k)
       /\ (\A i \in 1..Len(Sources) : Sources[i] # args[1]) =>
            \A k \in PropKeys :
              /\ Having(heap, k) = Having(heap', k)
              /\ \A i \in Having(heap, k) :
                   GetProp(heap, Sources[i], k) = GetProp(heap', Sources[i], k)]_vars

\* extend({a:1}, {b:2}, null, {a:3}) has returned the target, now {a:3, b:2}
C1_Witness ==
  /\ pc = "done" /\ ret = Return(Ref(1))
  /\ args = <<Ref(1), Ref(2), Null, Ref(3)>>
  /\ heap[2] = ObjWith(<<KeyB>>, 2)
  /\ heap[1] = ObjCell(<<KeyA, KeyB>>, <<Num(3), Num(2)>>)

\* C2: extend with a null or undefined target raises, whatever the
\* sources: nothing is returned, no object is allocated and every object
\* is left as it was.
C2_NullTargetRaises ==
  [][(pc = "extend" /\ pc' = "done" /\ IsNullish(args[1])) =>
       /\ ret'.st = "throw"
       /\ ret'.val = Undefined
       /\ heap' = heap]_vars

\* extend(undefined, {a:3}, {b:2}) has raised
C2_Witness ==
  /\ pc = "done" /\ ret.st = "throw"
  /\ args = <<Undefined, Ref(3), Ref(2)>>
  /\ heap[2] = ObjWith(<<KeyB>>, 2)

(***************************************************************************)
(* Properties of isEmptyData.                                              *)
(***************************************************************************)
OnlyWhitespace(chars) == \A i \in 1..Len(chars) : chars[i] \in Whitespace

Kids(h, r) == {h[r].vs[i].n : i \in {j \in 1..Len(h[r].vs) : IsRef(h[r].vs[j])}}

RECURSIVE ReachFrom(_, _)
ReachFrom(h, S) ==
  LET more == S \cup UNION {Kids(h, r) : r \in S} IN
  IF more = S THEN S ELSE ReachFrom(h, more)

Reach(h, v) == IF IsRef(v) THEN ReachFrom(h, {v.n}) ELSE {}

\* v reaches a cell that reaches itself
Cyclic(h, v) == \E r \in Reach(h, v) : r \in ReachFrom(h, Kids(h, r))

JsonPrimitive(v) ==
  \/ v.t \in {"null", "boolean", "string"}
  \/ v.t = "number" /\ ~IsNaN(v)

\* a value of the JSON data model: primitives, arrays and plain objects,
\* no circular reference
JsonCompatible(h, v) ==
  /\ JsonPrimitive(v) \/ IsRef(v)
  /\ ~Cyclic(h, v)
  /\ \A r \in Reach(h, v) :
       /\ h[r].kind \in {"arr", "obj"}
       /\ \A i \in 1..Len(h[r].vs) : JsonPrimitive(h[r].vs[i]) \/ IsRef(h[r].vs[i])

RECURSIVE DeepTree(_, _)
\* a value without circular references, unfolded: what deep equality compares
DeepTree(h, v) ==
  IF ~IsRef(v) THEN Leaf(v)
  ELSE LET kids == [i \in 1..Len(h[v.n].vs) |-> DeepTree(h, h[v.n].vs[i])] IN
       IF h[v.n].kind = "arr" THEN ArrTree(kids) ELSE ObjTree(h[v.n].ks, kids)

IsDropped(tree) == tree.node = "leaf" /\ Unserializable(tree.val)

RECURSIVE Degrade(_)
RECURSIVE DegradeMembers(_, _)
\* the members of an object tree from the i-th on, without the dropped ones
DegradeMembers(tree, i) ==
  IF i > Len(tree.ks) THEN [ks |-> <<>>, es |-> <<>>]
  ELSE LET rest == DegradeMembers(tree, i + 1) IN
       IF IsDropped(tree.es[i]) THEN rest
       ELSE [ks |-> <<tree.ks[i]>> \o rest.ks, es |-> <<Degrade(tree.es[i])>> \o rest.es]

\* the JSON encoding rules on an unfolded value: NaN becomes null, in an
\* array a function, symbol or undefined becomes null, in an object a
\* property holding one is dropped
Degrade(tree) ==
  CASE tree.node = "leaf" -> IF IsNaN(tree.val) THEN Leaf(Null) ELSE tree
    [] tree.node = "arr" ->
         ArrTree([i \in 1..Len(tree.es) |->
                    IF IsDropped(tree.es[i]) THEN Leaf(Null) ELSE Degrade(tree.es[i])])
    [] OTHER -> ObjTree(DegradeMembers(tree, 1).ks, DegradeMembers(tree, 1).es)

\* C4 as stated: cloneJSON never raises, whatever its input.
C4_NeverRaises == pc = "cloned" => ret.st = "return"

\* C4 amended: cloneJSON returns null and undefined as they are; it raises
\* for a function or a symbol (JSON.stringify gives undefined, which is no
\* JSON text) and for a value that reaches a circular reference; for every
\* other value it returns the value degraded by the JSON encoding rules
\* (NaN and unserializable array elements null, unserializable properties
\* dropped).
C4_RaisesOnlyOnUnserializable ==
  [][(pc = "clone" /\ pc' = "cloned") =>
       IF IsNullish(args[1]) THEN ret' = Return(args[1])
       ELSE IF args[1].t \in {"function", "symbol"} \/ Cyclic(heap, args[1])
       THEN ret'.st = "throw" /\ heap' = heap
       ELSE /\ ret'.st = "return"
            /\ DeepTree(heap', ret'.val) = Degrade(DeepTree(heap, args[1]))]_vars

\* {a: undefined, b: NaN} was cloned to {b: null}
C4_Witness ==
  /\ pc = "cloned" /\ ret.st = "return" /\ args = <<Ref(1)>>
  /\ heap[1] = ObjCell(<<KeyA, KeyB>>, <<Undefined, NaN>>)
  /\ heap[ret.val.n] = ObjCell(<<KeyB>>, <<Null>>)

\* C9: cloneJSON returns null and undefined as they are; for a
\* JSON-compatible value it returns a deeply equal value that shares no
\* object or array with it at any depth, without modifying the original;
\* a later assignment inside the copy leaves the original as it was, and
\* one inside the original leaves the copy as it was.
C9_IndependentCopy ==
  /\ [][(pc = "clone" /\ pc' = "cloned" /\ IsNullish(args[1])) =>
          ret' = Return(args[1]) /\ heap' = heap]_vars
  /\ [][(pc = "clone" /\ pc' = "cloned" /\ JsonCompatible(heap, args[1])) =>
          /\ ret'.st = "return"
          /\ DeepTree(heap', ret'.val) = DeepTree(heap, args[1])
          /\ Reach(heap', ret'.val) \cap Reach(heap', args[1]) = {}
          /\ IsRef(args[1]) => IsRef(ret'.val) /\ ret'.val # args[1]
          /\ SubSeq(heap', 1, Len(heap)) = heap]_vars
  /\ [][(pc = "cloned" /\ Len(log') > Len(log) /\ JsonCompatible(heap, args[1])) =>
          LET r == log'[Len(log')] IN
          /\ r \in Reach(heap, ret.val) =>
               DeepTree(heap', args[1]) = DeepTree(heap, args[1])
          /\ r \in Reach(heap, args[1]) =>
               DeepTree(heap', ret.val) = DeepTree(heap, ret.val)]_vars

\* {a: [{a:1}], b: {a:1}} was cloned, then the copy's nested array was
\* assigned to
C9_Witness ==
  /\ pc = "cloned" /\ ret.st = "return" /\ args = <<Ref(1)>>
  /\ heap[1] = ObjCell(<<KeyA, KeyB>>, <<Ref(2), Ref(3)>>)
  /\ heap[2] = ArrCell(<<Ref(3)>>)
  /\ Len(log) = 1 /\ log[1] \in Kids(heap, ret.val.n)
  /\ heap[log[1]] = ArrCell(<<Num(7)>>)

(***************************************************************************)
(* Properties of tryParseJSON.                                             *)
(***************************************************************************)
RECURSIVE IsValue(_, _, _)
RECURSIVE IsList(_, _, _)
RECURSIVE IsMembers(_, _, _)

\* The JSON grammar on the tokens i..j of a text: value, value list,
\* member list.
IsValue(toks, i, j) ==
  \/ i = j /\ toks[i].k \in {"lit", "num", "str"}
  \/ /\ i < j /\ toks[i].k = "[" /\ toks[j].k = "]"
     /\ j = i + 1 \/ IsList(toks, i + 1, j - 1)
  \/ /\ i < j /\ toks[i].k = "{" /\ toks[j].k = "}"
     /\ j = i + 1 \/ IsMembers(toks, i + 1, j - 1)

IsList(toks, i, j) ==
  /\ i <= j
  /\ \/ IsValue(toks, i, j)
     \/ \E m \in (i + 1)..(j - 1) :
          IsValue(toks, i, m - 1) /\ toks[m].k = "," /\ IsList(toks, m + 1, j)

IsMember(toks, i, j) ==
  i + 2 <= j /\ toks[i].k = "str" /\ toks[i + 1].k = ":" /\ IsValue(toks, i + 2, j)

IsMembers(toks, i, j) ==
  /\ i <= j
  /\ \/ IsMember(toks, i, j)
     \/ \E m \in (i + 1)..(j - 1) :
          IsMember(toks, i, m - 1) /\ toks[m].k = "," /\ IsMembers(toks, m + 1, j)

ValidJSON(toks) == Len(toks) >= 1 /\ IsValue(toks, 1, Len(toks))

\* no two keys of the text are equal
DistinctKeys(toks) ==
  \A i, j \in 1..(Len(toks) - 1) :
    (i < j /\ toks[i].k = "str" /\ toks[j].k = "str"
     /\ toks[i + 1].k = ":" /\ toks[j + 1].k = ":") => toks[i].s # toks[j].s

\* C3 as stated: tryParseJSON never raises, whatever str and onError are,
\* an onError that itself raises included.
C3_NeverRaises == pc = "done" => ret.st = "return"

\* C3 amended: tryParseJSON returns a value whenever onError is absent or
\* does not raise, and whenever str is valid JSON; when str is not valid
\* JSON and onError raises, onError's error reaches the caller.
C3_RaisesOnlyFromOnError ==
  pc = "done" =>
    IF ~ValidJSON(args[1]) /\ args[2] = Func(1)
    THEN ret = Throw(CallbackError)
    ELSE ret.st = "return"

\* the text [ with an onError that returns: undefined came back
C3_Witness ==
  /\ pc = "done" /\ args = <<<<Punct("[")>>, Func(0)>>
  /\ ret = Return(Undefined)

\* C10: with an onError that does not raise, on valid JSON tryParseJSON
\* returns the parsed value (null for the text null) and never calls
\* onError; on a text that is not valid JSON it returns undefined, after
\* calling onError, if given, exactly once with the parse error.
C10_ParseOrReport ==
  (pc = "done" /\ args[2] # Func(1)) =>
    IF ValidJSON(args[1])
    THEN /\ ret.st = "return"
         /\ log = <<>>
         /\ DistinctKeys(args[1]) => JSONstringify(heap, ret.val) = Text(args[1])
         /\ args[1] = <<TokLit("null")>> => ret.val = Null
    ELSE /\ ret = Return(Undefined)
         /\ heap = <<>>
         /\ log = IF Truthy(args[2]) THEN <<<<args[2], Err("SyntaxError")>>>> ELSE <<>>

\* {"a":1,} was refused and onError called once with the SyntaxError
C10_Witness ==
  /\ pc = "done" /\ ret = Return(Undefined)
  /\ args[1] = <<Punct("{"), TokStr(KeyA), Punct(":"), TokNum(Num(1)), Punct(","),
                 Punct("}")>>
  /\ log = <<<<Func(0), Err("SyntaxError")>>>>

====
